---- MODULE Spec2Model ----
(***************************************************************************)
(* A model of the rs-gavisunk SUNK pipeline: SUNK extraction               *)
(* (get_kmers.rs), SUNK -> read mapping (map_kmers.rs), read/contig         *)
(* assignment (assign_read_ctg.rs), the bad-SUNK filter                     *)
(* (filter_bad_sunks.rs), the per-contig SUNK graph (sunk_graph.rs) and the *)
(* TSV stage cache (io.rs).  Every stage is a batch transformation, so each *)
(* stage has its own specification: Init draws the stage's input from       *)
(* bounded sets and the actions are the steps of the stage's function.      *)
(***************************************************************************)
EXTENDS Integers, Sequences, FiniteSets, TLC

VARIABLES
    \* ---- get_sunk_positions (get_kmers.rs)
    s_pc,        \* position in get_sunk_positions
    s_ref,       \* the reference: sequence of [name, bases] (fasta.lengths() order)
    s_ksize,     \* kmer_size
    s_canon,     \* canonical
    s_kidx,      \* all_kmer_indices: name -> (Kmer -> <<count, first position>>)
    s_kcnts,     \* kmer_cnts after retain: the kmers of global count 1
    s_todo,      \* name -> kmers the `for (kmer, _) in kmers.iter()` loop has yet to visit
    s_keep,      \* name -> keep_list
    s_remove,    \* name -> remove_list
    s_df,        \* df_sunks_final: sequence of [ctg, cpos, kmer, group]
    prev_df,     \* the rows returned by an earlier execution on the same reference
    \* ---- map_sunks_to_reads (map_kmers.rs)
    m_pc,        \* position in map_sunks_to_reads
    m_tbl,       \* df_sunks, the SUNK table given
    m_reads,     \* fa.lengths(): the read names in file order
    m_occ,       \* read -> (read position -> the SUNK site whose k-mer lies there)
    m_res,       \* read -> the hits map_sunks_to_seq returned for it
    m_out,       \* df_final: sequence of [read, rpos, ctg, cpos, group]
    \* ---- assign_read_to_ctg_w_ort (assign_read_ctg.rs)
    a_pc,        \* position in assign_read_to_ctg_w_ort
    a_tbl,       \* df_read_sunk_pos: sequence of [read, rpos, ctg, cpos]
    a_dtype,     \* dtype of the position columns: "u64" (built in this run) or "i64" (read from TSV)
    a_bw,        \* bandwidth
    a_thr,       \* good_sunk_threshold
    a_out,       \* the assignment: set of [read, ctg, sunks_within_bandwidth, ort]
    \* ---- filter_bad_sunks (filter_bad_sunks.rs)
    f_pc,        \* position in filter_bad_sunks
    f_cov,       \* id -> number of rows of df_sunks with that "{ctg}:{group}"
    f_mode,      \* mean_count: the mode .first() took, 0 when there was none
    f_bad,       \* the ids of the rows returned
    f_prev,      \* [ran, bad]: the ids an earlier execution on the same table returned
    \* ---- create_sunk_graph (sunk_graph.rs)
    g_pc,        \* "start", "ran" (after the call without bad SUNKs), "done"
    g_tbl,       \* df_read_sunks of one contig: set of [read, rpos, cpos, id]
    g_len,       \* read_lens
    g_dtype,     \* dtype of the cpos, rpos and id columns: "u64" or "i64"
    g_del,       \* the id given as bad SUNK to the second call
    g_run1,      \* what the call without bad SUNKs returned
    g_run2,      \* what the call with the bad SUNK g_del returned
    \* ---- load_or_redo_df! (io.rs)
    c_state,     \* "run", "aborted", "finished" ("off" outside this stage's specification)
    c_run,       \* the number of the pipeline run
    c_stage,     \* the stage the driver is at
    c_file,      \* stage -> what its path holds: Absent, Partial or a table
    c_df,        \* stage -> the table the macro gave the driver in this run
    c_execd,     \* the $fn_call evaluations of this run: [stage, existed]
    c_fail,      \* what made the run abort: "load", "exec", "create" or "write"
    c_completed, \* an earlier run completed every stage
    c_snap       \* the files as the first completed run left them

s_vars == <<s_pc, s_ref, s_ksize, s_canon, s_kidx, s_kcnts, s_todo, s_keep, s_remove, s_df>>

prev_vars == <<prev_df>>

m_vars == <<m_pc, m_tbl, m_reads, m_occ, m_res, m_out>>

a_vars == <<a_pc, a_tbl, a_dtype, a_bw, a_thr, a_out>>

f_vars == <<f_pc, f_cov, f_mode, f_bad, f_prev>>

g_vars == <<g_pc, g_tbl, g_len, g_dtype, g_del, g_run1, g_run2>>

c_vars == <<c_state, c_run, c_stage, c_file, c_df, c_execd, c_fail, c_completed, c_snap>>

vars == <<s_vars, m_vars, a_vars, f_vars, g_vars, c_vars, prev_vars>>

NotSunk == <<prev_vars, m_vars, a_vars, f_vars, g_vars, c_vars>>

NotMap == <<prev_vars, s_vars, a_vars, f_vars, g_vars, c_vars>>

NotAssign == <<prev_vars, s_vars, m_vars, f_vars, g_vars, c_vars>>

NotFilter == <<prev_vars, s_vars, m_vars, a_vars, g_vars, c_vars>>

NotGraph == <<prev_vars, s_vars, m_vars, a_vars, f_vars, c_vars>>

NotCache == <<prev_vars, s_vars, m_vars, a_vars, f_vars, g_vars>>

(***************************************************************************)
(* Bounds.                                                                 *)
(***************************************************************************)
MaxRefLen == 4      \* total number of bases of the reference
MaxK == 2           \* largest kmer_size drawn
MaxCpos == 2        \* largest contig position of a SUNK table drawn as input
MaxBandwidth == 2   \* largest bandwidth drawn
MaxThreshold == 2   \* largest good_sunk_threshold drawn
MaxIds == 5         \* number of ids "{ctg}:{group}" of a table given to filter_bad_sunks
MaxGraphId == 5     \* largest SUNK id of a table given to create_sunk_graph
MaxGraphRpos == 6   \* largest read position of a table given to create_sunk_graph
NumStages == 3      \* number of cached stages of the pipeline
MaxRuns == 3        \* number of times the pipeline is run

(***************************************************************************)
(* Generic helpers.                                                        *)
(***************************************************************************)
Range(f) == {f[i] : i \in DOMAIN f}

Min(S) == CHOOSE x \in S : \A y \in S : x <= y

Max(S) == CHOOSE x \in S : \A y \in S : x >= y

RECURSIVE SumOver(_, _)
SumOver(f, S) ==
    IF S = {} THEN 0
    ELSE LET x == CHOOSE y \in S : TRUE IN f[x] + SumOver(f, S \ {x})

(***************************************************************************)
(* Kmers (crate kmers): a Kmer is its bases, 2 bits each: A=0 C=1 G=2 T=3. *)
(***************************************************************************)
Bases == 0..3

BaseChar == <<"A", "C", "G", "T">>

\* Kmer::render(k): the bases as text.
render(kmer) == [i \in DOMAIN kmer |-> BaseChar[kmer[i] + 1]]

\* Kmer::rev_comp(k): reversed, each base b complemented to 3 - b.
rev_comp(kmer) == [i \in DOMAIN kmer |-> 3 - kmer[Len(kmer) + 1 - i]]

\* The 0-based start positions of the windows Kmer::with_many_both_pos visits.
WindowStarts(bases, k) == IF Len(bases) < k THEN {} ELSE 0..(Len(bases) - k)

WindowKmer(bases, k, pos) == SubSeq(bases, pos + 1, pos + k)

\* indices.entry(key).and_modify(|(cnt, _)| *cnt += 1).or_insert((1, pos + 1))
entry_count(indices, key, pos) ==
    IF key \in DOMAIN indices
    THEN [indices EXCEPT ![key] = <<@[1] + 1, @[2]>>]
    ELSE indices @@ (key :> <<1, pos + 1>>)

RECURSIVE count_from(_, _, _, _)
count_from(bases, k, pos, indices) ==
    IF pos \notin WindowStarts(bases, k) THEN indices
    ELSE LET x == WindowKmer(bases, k, pos)
             y == rev_comp(x)
         IN count_from(bases, k, pos + 1,
                       entry_count(entry_count(indices, x, pos), y, pos))

\* get_kmer_counts_pos: kmer -> <<count, first position (1-based)>> of one sequence.
get_kmer_counts_pos(bases, k) == count_from(bases, k, 0, <<>>)

\* The fold of lines 79-85: the count of each kmer summed over all sequences.
sum_kmer_counts(kidx) ==
    LET all == UNION {DOMAIN kidx[n] : n \in DOMAIN kidx}
        cntIn == [km \in all |->
                    [n \in DOMAIN kidx |->
                        IF km \in DOMAIN kidx[n] THEN kidx[n][km][1] ELSE 0]]
    IN [km \in all |-> SumOver(cntIn[km], DOMAIN kidx)]

\* retain_sunks keeping every counted kmer: the `== 1` test lost.
retain_any_count(cnts) == cnts

\* kmer_cnts.retain(|_, cnt| *cnt == 1)
retain_sunks(cnts) ==
    LET keys == {km \in DOMAIN cnts : cnts[km] = 1} IN [km \in keys |-> cnts[km]]

\* kmers.retain(|k, _| keys.contains(k))
retain_keys(kmers, keys) == [km \in (DOMAIN kmers \cap keys) |-> kmers[km]]

(***************************************************************************)
(* The group column (get_kmers.rs 130-158), over a table sorted by         *)
(* (ctg, cpos).  Every expression is evaluated .over(["ctg"]).             *)
(***************************************************************************)
\* The previous row of the same contig, 0 when row i is the contig's first.
PrevInCtg(tbl, i) ==
    LET before == {j \in 1..(i - 1) : tbl[j].ctg = tbl[i].ctg}
    IN IF before = {} THEN 0 ELSE Max(before)

\* (col("cpos") - col("cpos").shift_and_fill(lit(1), lit(0))).gt(lit(1))
gap_gt_1(tbl, i) ==
    LET p == PrevInCtg(tbl, i)
    IN tbl[i].cpos - (IF p = 0 THEN 0 ELSE tbl[p].cpos) > 1

\* .rle_id(): 0 for the first row, one more whenever the value changes.
RECURSIVE rle_id(_, _)
rle_id(tbl, i) ==
    LET p == PrevInCtg(tbl, i)
    IN IF p = 0 THEN 0
       ELSE rle_id(tbl, p) + (IF gap_gt_1(tbl, i) # gap_gt_1(tbl, p) THEN 1 ELSE 0)

\* when(group == 0).then(1).when(group % 2 == 0).then(group + 1).otherwise(group)
group_renumber(g) == IF g = 0 THEN 1 ELSE IF g % 2 = 0 THEN g + 1 ELSE g

\* col("cpos").first().over(["ctg", "group"])
group_first_cpos(tbl, i) ==
    LET g(j) == group_renumber(rle_id(tbl, j))
        same == {j \in DOMAIN tbl : tbl[j].ctg = tbl[i].ctg /\ g(j) = g(i)}
    IN tbl[Min(same)].cpos

with_group(tbl) ==
    [i \in DOMAIN tbl |->
        [ctg |-> tbl[i].ctg, cpos |-> tbl[i].cpos, kmer |-> tbl[i].kmer,
         group |-> group_first_cpos(tbl, i)]]

\* Row order of .sort(["ctg", "cpos"]): ascending, rows of equal key in any order.
CtgNames == <<"A", "B">>

CtgRank(c) == CHOOSE i \in DOMAIN CtgNames : CtgNames[i] = c

\* Every sequence a sort can return: ascending in the keys given by `less`
\* (a set of pairs), rows of equal key in any order (the sorts of the program
\* are not stable: maintain_order is left false).
RECURSIVE SortedSeqs(_, _)
SortedSeqs(rows, less) ==
    IF rows = {} THEN {<<>>}
    ELSE LET firsts == {r \in rows : \A q \in rows : <<q, r>> \notin less}
         IN UNION {{<<r>> \o rest : rest \in SortedSeqs(rows \ {r}, less)} : r \in firsts}

\* .sort(["ctg", "cpos"])
CtgCposLess(rows) ==
    {<<a, b>> \in rows \X rows :
        \/ CtgRank(a.ctg) < CtgRank(b.ctg)
        \/ (a.ctg = b.ctg /\ a.cpos < b.cpos)}

(***************************************************************************)
(* get_sunk_positions as a state machine.                                  *)
(***************************************************************************)
BaseSeqs(n) == UNION {[1..m -> Bases] : m \in 1..n}

\* One or two named sequences, MaxRefLen bases in all.
References ==
    {<<[name |-> CtgNames[1], bases |-> a]>> : a \in BaseSeqs(MaxRefLen)}
    \cup {<<[name |-> CtgNames[1], bases |-> a], [name |-> CtgNames[2], bases |-> b]>> :
            a \in BaseSeqs(MaxRefLen - 1), b \in BaseSeqs(MaxRefLen - 1)}

RefNames == {s_ref[i].name : i \in DOMAIN s_ref}

RefBases(n) == (CHOOSE r \in Range(s_ref) : r.name = n).bases

EmptySets == [n \in RefNames |-> {}]

SunkInit ==
    /\ s_ref \in {r \in References :
                    SumOver([i \in DOMAIN r |-> Len(r[i].bases)], DOMAIN r) <= MaxRefLen}
    /\ s_ksize \in 1..MaxK
    /\ s_canon \in BOOLEAN
    /\ s_pc = "count"
    /\ s_kidx = <<>>
    /\ s_kcnts = <<>>
    /\ s_todo = EmptySets
    /\ s_keep = EmptySets
    /\ s_remove = EmptySets
    /\ s_df = <<>>
    /\ prev_df = {}

SunkIdle ==
    /\ s_pc = "off" /\ s_ref = <<>> /\ s_ksize = 0 /\ s_canon = FALSE
    /\ s_kidx = <<>> /\ s_kcnts = <<>> /\ s_todo = <<>> /\ s_keep = <<>>
    /\ s_remove = <<>> /\ s_df = <<>> /\ prev_df = {}

\* Lines 69-76: one task per sequence, in any order.
CountSequence(n) ==
    /\ s_pc = "count"
    /\ n \in RefNames \ DOMAIN s_kidx
    /\ s_kidx' = s_kidx @@ (n :> get_kmer_counts_pos(RefBases(n), s_ksize))
    /\ s_pc' = IF DOMAIN s_kidx' = RefNames THEN "reduce" ELSE "count"
    /\ UNCHANGED <<NotSunk, s_ref, s_ksize, s_canon, s_kcnts, s_todo, s_keep, s_remove, s_df>>

\* Lines 78-91: the global counts, the SUNK set, and every map cut down to it.
ReduceCounts ==
    /\ s_pc = "reduce"
    /\ s_kcnts' = retain_sunks(sum_kmer_counts(s_kidx))
    /\ s_kidx' = [n \in RefNames |-> retain_keys(s_kidx[n], DOMAIN s_kcnts')]
    /\ s_todo' = [n \in RefNames |-> DOMAIN s_kidx'[n]]
    /\ s_keep' = EmptySets
    /\ s_remove' = EmptySets
    /\ s_pc' = IF s_canon THEN "canon" ELSE "emit"
    /\ UNCHANGED <<NotSunk, s_ref, s_ksize, s_canon, s_df>>

\* Lines 97-108: one iteration of `for (kmer, _) in kmers.iter()`; a HashMap
\* iterates in an order the program does not control.
\* Lines 93-108 without the keep_list test of line 101.
canon_visit_no_keep_test(n, kmer) ==
    LET rc == rev_comp(kmer)
        hit == /\ rc \notin s_remove[n]
               /\ rc \in DOMAIN s_kidx[n]
    IN /\ s_keep' = [s_keep EXCEPT ![n] = IF hit THEN @ \cup {kmer} ELSE @]
       /\ s_remove' = [s_remove EXCEPT ![n] = IF hit THEN @ \cup {rc} ELSE @]

canon_visit(n, kmer) ==
    LET rc == rev_comp(kmer)
        hit == /\ rc \notin s_remove[n]
               /\ rc \in DOMAIN s_kidx[n]
               /\ rc \notin s_keep[n]
    IN /\ s_keep' = [s_keep EXCEPT ![n] = IF hit THEN @ \cup {kmer} ELSE @]
       /\ s_remove' = [s_remove EXCEPT ![n] = IF hit THEN @ \cup {rc} ELSE @]

CanonVisit(n, kmer) ==
    /\ s_pc = "canon"
    /\ n \in RefNames
    /\ kmer \in s_todo[n]
    /\ canon_visit(n, kmer)
    /\ s_todo' = [s_todo EXCEPT ![n] = @ \ {kmer}]
    /\ UNCHANGED <<NotSunk, s_pc, s_ref, s_ksize, s_canon, s_kidx, s_kcnts, s_df>>

\* Line 110: kmers.retain(|k, _| keep_list.contains(k))
CanonRetain ==
    /\ s_pc = "canon"
    /\ \A n \in RefNames : s_todo[n] = {}
    /\ s_kidx' = [n \in RefNames |-> retain_keys(s_kidx[n], s_keep[n])]
    /\ s_pc' = "emit"
    /\ UNCHANGED <<NotSunk, s_ref, s_ksize, s_canon, s_kcnts, s_todo, s_keep, s_remove, s_df>>

\* Lines 114-128: one row per kmer left in each map.
SunkRows(kidx) ==
    UNION {{[ctg |-> n, cpos |-> kidx[n][km][2], kmer |-> render(km)] :
                km \in DOMAIN kidx[n]} : n \in DOMAIN kidx}

\* Lines 114-158: rows, sort, group.
EmitSunks ==
    /\ s_pc = "emit"
    /\ \E tbl \in SortedSeqs(SunkRows(s_kidx), CtgCposLess(SunkRows(s_kidx))) : s_df' = with_group(tbl)
    /\ s_pc' = "done"
    /\ UNCHANGED <<NotSunk, s_ref, s_ksize, s_canon, s_kidx, s_kcnts, s_todo, s_keep, s_remove>>

\* A second execution of get_sunk_positions on the same reference with the
\* same arguments; the rows of the first are kept for comparison.
RunAgain ==
    /\ s_pc = "done"
    /\ prev_df = {}
    /\ s_df # <<>>
    /\ prev_df' = Range(s_df)
    /\ s_pc' = "count"
    /\ s_kidx' = <<>>
    /\ s_kcnts' = <<>>
    /\ s_todo' = EmptySets
    /\ s_keep' = EmptySets
    /\ s_remove' = EmptySets
    /\ s_df' = <<>>
    /\ UNCHANGED <<m_vars, a_vars, f_vars, g_vars, c_vars, s_ref, s_ksize, s_canon>>

SunkTwiceNext ==
    \/ \E n \in RefNames : CountSequence(n)
    \/ ReduceCounts
    \/ \E n \in RefNames : \E kmer \in s_todo[n] : CanonVisit(n, kmer)
    \/ CanonRetain
    \/ EmitSunks
    \/ RunAgain

SunkNext ==
    \/ \E n \in RefNames : CountSequence(n)
    \/ ReduceCounts
    \/ \E n \in RefNames : \E kmer \in s_todo[n] : CanonVisit(n, kmer)
    \/ CanonRetain
    \/ EmitSunks

(***************************************************************************)
(* map_sunks_to_reads (map_kmers.rs).  A SUNK k-mer is a token             *)
(* <<ctg, cpos, strand>>; a read is described by the SUNK site whose k-mer  *)
(* (on either strand: SimplePosIndex::add_seq_both) lies at each of its      *)
(* positions.                                                               *)
(***************************************************************************)
NoSite == [ctg |-> "-", cpos |-> 0]

ReadNames == <<"r1", "r2">>

ReadRank(r) == CHOOSE i \in DOMAIN ReadNames : ReadNames[i] = r

\* The number of k-mer windows of each read drawn.
ReadWindows == [r \in Range(ReadNames) |-> IF r = ReadNames[1] THEN 2 ELSE 1]

\* The rows get_sunk_positions emits for SUNK positions posA, posB: one k-mer
\* per position when canonical, the k-mer and its reverse complement otherwise.
TableRows(posA, posB, canonical) ==
    LET strands == IF canonical THEN {"f"} ELSE {"f", "r"}
        of(c, ps) == {[ctg |-> c, cpos |-> q, kmer |-> <<c, q, s>>] : q \in ps, s \in strands}
    IN of(CtgNames[1], posA) \cup of(CtgNames[2], posB)

\* The SUNK tables drawn: positions up to MaxCpos on the first contig, up to
\* MaxCpos - 1 on the second, in every order the sort of get_sunk_positions allows.
SunkTables ==
    UNION {{with_group(tbl) : tbl \in SortedSeqs(TableRows(posA, posB, cn),
                                                  CtgCposLess(TableRows(posA, posB, cn)))} :
            posA \in SUBSET (1..MaxCpos), posB \in SUBSET (1..(MaxCpos - 1)), cn \in BOOLEAN}

SiteOf(row) == [ctg |-> row.ctg, cpos |-> row.cpos]

RECURSIVE SetToSeq(_)
SetToSeq(S) == IF S = {} THEN <<>> ELSE <<Min(S)>> \o SetToSeq(S \ {Min(S)})

RECURSIVE Concat(_, _)
Concat(f, names) ==
    IF names = <<>> THEN <<>> ELSE f[Head(names)] \o Concat(f, Tail(names))

\* Lines 28-36: `sunks.iter().flat_map(|sunk| idx.find(sunk) ...)`: for each SUNK
\* in table order, every position of the read that holds it.
RECURSIVE flat_map_hits(_, _, _, _)
flat_map_hits(tbl, read, occ, i) ==
    IF i > Len(tbl) THEN <<>>
    ELSE LET at == SetToSeq({q \in DOMAIN occ : occ[q] = SiteOf(tbl[i])})
         IN [n \in DOMAIN at |-> [read |-> read, kmer |-> tbl[i].kmer, rpos |-> at[n]]]
            \o flat_map_hits(tbl, read, occ, i + 1)

\* map_sunks_to_seq: ok is FALSE for the bail!("No SUNKs given.") of line 20.
map_sunks_to_seq(tbl, read, occ) ==
    IF Len(tbl) = 0 THEN [ok |-> FALSE, hits |-> <<>>]
    ELSE [ok |-> TRUE, hits |-> flat_map_hits(tbl, read, occ, 1)]

\* Line 81: the left join on kmer keeps the order of the hits.
join_on_kmer(hits, tbl) ==
    [i \in DOMAIN hits |->
        LET row == tbl[CHOOSE j \in DOMAIN tbl : tbl[j].kmer = hits[i].kmer]
        IN [read |-> hits[i].read, rpos |-> hits[i].rpos, ctg |-> row.ctg,
            cpos |-> row.cpos, group |-> row.group]]

\* GroupKey with cpos added: one row per SUNK position instead of per group.
GroupKeyPerCpos(row) == <<row.read, row.ctg, row.group, row.cpos>>

\* Line 83: .group_by([col("read"), col("ctg"), col("group")])
GroupKey(row) == <<row.read, row.ctg, row.group>>

\* agg_cpos_first taking the group's last row.
agg_cpos_last(joined, idxs) == joined[Max(idxs)].cpos

\* col("cpos").first(): the cpos of the group's first row.
agg_cpos_first(joined, idxs) == joined[Min(idxs)].cpos

\* col("rpos").sort_by(["cpos"]).first(): the rpos of a row of least cpos; the
\* sort is not stable, so any row of least cpos may come first.
agg_rpos_by_cpos(joined, idxs) ==
    LET least == Min({joined[i].cpos : i \in idxs})
    IN {joined[i].rpos : i \in {j \in idxs : joined[j].cpos = least}}

\* .sort(["read", "rpos"])
ReadRposLess(rows) ==
    {<<a, b>> \in rows \X rows :
        \/ ReadRank(a.read) < ReadRank(b.read)
        \/ (a.read = b.read /\ a.rpos < b.rpos)}

MapInit ==
    /\ m_tbl \in SunkTables
    /\ m_reads \in {SubSeq(ReadNames, 1, n) : n \in 0..Len(ReadNames)}
    /\ m_occ \in [Range(m_reads) -> UNION {[1..ReadWindows[r] ->
                    {SiteOf(m_tbl[i]) : i \in DOMAIN m_tbl} \cup {NoSite}] : r \in Range(m_reads)}]
    /\ \A r \in Range(m_reads) : DOMAIN m_occ[r] = 1..ReadWindows[r]
    /\ m_pc = "map"
    /\ m_res = <<>>
    /\ m_out = <<>>

MapIdle ==
    /\ m_pc = "off" /\ m_tbl = <<>> /\ m_reads = <<>> /\ m_occ = <<>>
    /\ m_res = <<>> /\ m_out = <<>>

\* Lines 57-60: one task per read, finishing in any order; a task that fails
\* panics (`.unwrap()`).
MapRead(r) ==
    /\ m_pc = "map"
    /\ r \in Range(m_reads) \ DOMAIN m_res
    /\ LET res == map_sunks_to_seq(m_tbl, r, m_occ[r])
       IN IF ~res.ok
          THEN m_pc' = "panic" /\ UNCHANGED m_res
          ELSE m_res' = m_res @@ (r :> res.hits) /\ UNCHANGED m_pc
    /\ UNCHANGED <<NotMap, m_tbl, m_reads, m_occ, m_out>>

\* Lines 60-96: the per-read results are concatenated in read order, joined to
\* the SUNK table, reduced per (read, ctg, group) and sorted by (read, rpos).
JoinAndReduce ==
    /\ m_pc = "map"
    /\ DOMAIN m_res = Range(m_reads)
    /\ LET joined == join_on_kmer(Concat(m_res, m_reads), m_tbl)
           keys == {GroupKey(joined[i]) : i \in DOMAIN joined}
           idxs(k) == {i \in DOMAIN joined : GroupKey(joined[i]) = k}
       IN \E rp \in [keys -> {joined[i].rpos : i \in DOMAIN joined}] :
            /\ \A k \in keys : rp[k] \in agg_rpos_by_cpos(joined, idxs(k))
            /\ LET rows == {[read |-> k[1], rpos |-> rp[k], ctg |-> k[2],
                              cpos |-> agg_cpos_first(joined, idxs(k)),
                              group |-> k[3]] : k \in keys}
               IN \E out \in SortedSeqs(rows, ReadRposLess(rows)) : m_out' = out
    /\ m_pc' = "done"
    /\ UNCHANGED <<NotMap, m_tbl, m_reads, m_occ, m_res>>

MapNext ==
    \/ \E r \in Range(m_reads) : MapRead(r)
    \/ JoinAndReduce

(***************************************************************************)
(* assign_read_to_ctg_w_ort (assign_read_ctg.rs).                          *)
(*                                                                         *)
(* The position columns are UInt64 when the table was built in this run    *)
(* (get_kmers.rs 121 and map_kmers.rs 73 push `pos as u64`) and Int64 when *)
(* it was read back by load_tsv.  Polars subtracts unsigned integers with  *)
(* wrap-around.  The program's modulus is 2^64; TLC's integers are 32 bits *)
(* wide, so the model wraps at 2^16, far above every position, sum and     *)
(* bandwidth it draws.                                                      *)
(***************************************************************************)
U64Modulus == 65536

\* a - b on a column of the given dtype.
col_sub(dtype, a, b) == IF dtype = "u64" THEN (a - b) % U64Modulus ELSE a - b

\* The (read, ctg) key of a row.
ReadCtg(row) == <<row.read, row.ctg>>

\* The rows of the (read, ctg) group k, as indices in row order.
ReadCtgGroup(tbl, k) == {j \in DOMAIN tbl : ReadCtg(tbl[j]) = k}

\* col("read").len().over(["read", "ctg"]).gt(lit(1))
has_two_rows(tbl, k) == Cardinality(ReadCtgGroup(tbl, k)) > 1

\* (col(c) - col(c).shift(1)).drop_nulls().mean().gt(0) over the rows idxs, vals
\* being the column: the mean is positive when the sum of the differences is.
RECURSIVE sum_of_diffs(_, _, _)
sum_of_diffs(dtype, vals, idxs) ==
    IF Cardinality(idxs) < 2 THEN 0
    ELSE LET last == Max(idxs)
             prev == Max(idxs \ {last})
         IN col_sub(dtype, vals[last], vals[prev]) + sum_of_diffs(dtype, vals, idxs \ {last})

gradient_positive(dtype, vals, idxs) == sum_of_diffs(dtype, vals, idxs) > 0

\* Lines 38-69: ort of the group k.
ort_of(dtype, tbl, k) ==
    LET g == ReadCtgGroup(tbl, k)
        cort == gradient_positive(dtype, [j \in g |-> tbl[j].cpos], g)
        rort == gradient_positive(dtype, [j \in g |-> tbl[j].rpos], g)
    IN IF rort /\ cort THEN "+" ELSE "-"

\* Lines 91-96: apos of a row whose group has orientation ort.
apos_of(dtype, ort, row) ==
    IF ort = "+" THEN col_sub(dtype, row.cpos, row.rpos) ELSE row.cpos + row.rpos

\* Twice the median of a non-empty bag of integers given as a function on S.
RECURSIVE SortedVals(_, _)
SortedVals(f, S) ==
    IF S = {} THEN <<>>
    ELSE LET x == CHOOSE y \in S : \A z \in S : f[y] <= f[z]
         IN <<f[x]>> \o SortedVals(f, S \ {x})

median_twice(f, S) ==
    LET v == SortedVals(f, S)
        n == Len(v)
    IN IF n % 2 = 1 THEN 2 * v[(n + 1) \div 2] ELSE v[n \div 2] + v[(n \div 2) + 1]

Abs(x) == IF x < 0 THEN -x ELSE x

\* (col("apos") - col("apos").median()).abs().lt(bandwidth)
in_band(a, med2, bw) == Abs(2 * a - med2) < 2 * bw

\* The number of rows of S whose value ap is within bw of the median of ap.
count_in_band(ap, S, bw) ==
    LET m2 == median_twice(ap, S) IN Cardinality({j \in S : in_band(ap[j], m2, bw)})

\* Lines 98-105: sunks_within_bandwidth of the group k.
swb_of(dtype, tbl, bw, k) ==
    LET g == ReadCtgGroup(tbl, k)
        o == ort_of(dtype, tbl, k)
    IN count_in_band([j \in g |-> apos_of(dtype, o, tbl[j])], g, bw)

\* agg_first taking the last row kept.
agg_last(kept) == Max(kept)

\* group_by(["read"]).agg([all().first()]): the first of the rows kept.
agg_first(kept) == Min(kept)

\* .filter(col("sunks_within_bandwidth").gt(good_sunk_threshold))
passes_threshold(swb, thr) == swb > thr

\* Lines 72-124: the whole query.
assign_read_to_ctg_w_ort(tbl, dtype, bw, thr) ==
    LET keys == {k \in {ReadCtg(tbl[i]) : i \in DOMAIN tbl} : has_two_rows(tbl, k)}
        ort == [k \in keys |-> ort_of(dtype, tbl, k)]
        swb == [k \in keys |-> swb_of(dtype, tbl, bw, k)]
        rows == {i \in DOMAIN tbl : ReadCtg(tbl[i]) \in keys}
        best == {i \in rows : \A k \in keys :
                    k[1] = tbl[i].read => swb[k] <= swb[ReadCtg(tbl[i])]}
        first == {agg_first({i \in best : tbl[i].read = r}) : r \in {tbl[i].read : i \in best}}
    IN {[read |-> tbl[i].read, ctg |-> tbl[i].ctg,
         sunks_within_bandwidth |-> swb[ReadCtg(tbl[i])], ort |-> ort[ReadCtg(tbl[i])]] :
            i \in {j \in first : passes_threshold(swb[ReadCtg(tbl[j])], thr)}}

\* The SUNK sites a read may hold: read -> set of [ctg, cpos]; and its positions.
AsgReadSites ==
    [r \in Range(ReadNames) |->
        IF r = ReadNames[1]
        THEN {[ctg |-> CtgNames[1], cpos |-> q] : q \in 1..4}
                \cup {[ctg |-> CtgNames[2], cpos |-> q] : q \in 1..2}
        ELSE {[ctg |-> CtgNames[1], cpos |-> q] : q \in 1..2}]

AsgReadPositions == [r \in Range(ReadNames) |-> IF r = ReadNames[1] THEN 1..4 ELSE 1..2]

\* A read as map_sunks_to_reads leaves it: each read position holds at most one
\* SUNK and each SUNK occurs once in the read.
AsgReadContents(r) ==
    {f \in [AsgReadPositions[r] -> AsgReadSites[r] \cup {NoSite}] :
        \A x, y \in DOMAIN f : (x # y /\ f[x] # NoSite) => f[x] # f[y]}

\* The rows of read r with contents f, sorted by rpos.
RECURSIVE AsgRowsOf(_, _, _)
AsgRowsOf(r, f, q) ==
    IF q \notin DOMAIN f THEN <<>>
    ELSE (IF f[q] = NoSite THEN <<>>
          ELSE <<[read |-> r, rpos |-> q, ctg |-> f[q].ctg, cpos |-> f[q].cpos]>>)
         \o AsgRowsOf(r, f, q + 1)

AssignInit ==
    /\ \E f1 \in AsgReadContents(ReadNames[1]), f2 \in AsgReadContents(ReadNames[2]) :
            a_tbl = AsgRowsOf(ReadNames[1], f1, 1) \o AsgRowsOf(ReadNames[2], f2, 1)
    /\ a_pc = "start"
    /\ a_dtype = "-"
    /\ a_bw = 0
    /\ a_thr = 0
    /\ a_out = {}

AssignIdle ==
    /\ a_pc = "off" /\ a_tbl = <<>> /\ a_dtype = "-" /\ a_bw = 0 /\ a_thr = 0 /\ a_out = {}

\* One call of assign_read_to_ctg_w_ort.
Assign(dtype, bw, thr) ==
    /\ a_pc = "start"
    /\ a_dtype' = dtype
    /\ a_bw' = bw
    /\ a_thr' = thr
    /\ a_out' = assign_read_to_ctg_w_ort(a_tbl, dtype, bw, thr)
    /\ a_pc' = "done"
    /\ UNCHANGED <<NotAssign, a_tbl>>

AssignNext ==
    \E dtype \in {"u64", "i64"}, bw \in 1..MaxBandwidth, thr \in 1..MaxThreshold :
        Assign(dtype, bw, thr)

(***************************************************************************)
(* filter_bad_sunks (filter_bad_sunks.rs).  The table given is reduced to  *)
(* the number of its rows per id "{ctg}:{group}", which is all the query    *)
(* reads of it (group_by(["id"]).agg(len)).                                *)
(***************************************************************************)
\* The ids of the table and the row counts drawn for them.
FilterIds == 1..MaxIds

CovValues == {1, 2, 3, 10, 11, 50}

\* .filter(col("count").gt(lit(2)))
count_gt_2(cov) == {id \in DOMAIN cov : cov[id] > 2}

\* col("count").mode(): every count of the rows `ids` that no other count outnumbers.
modes(cov, ids) ==
    LET times(c) == Cardinality({id \in ids : cov[id] = c})
    IN {cov[id] : id \in {i \in ids : \A j \in ids : times(cov[j]) <= times(cov[i])}}

\* col("count").gt(col("mean_count") + col("mean_count").sqrt() * lit(4)):
\* c > m + 4 * sqrt(m) exactly when c > m and (c - m)^2 > 16 * m.
above_tail(c, m) == c > m /\ (c - m) * (c - m) > 16 * m

\* Lines 29-33, on a row of count c: above the tail, or count < 2.
is_bad(c, m) == above_tail(c, m) \/ c < 2

\* Lines 28-35: the rows the second filter keeps, of those line 21 kept.
bad_rows(cov, kept, m) == {id \in kept : is_bad(cov[id], m)}

\* No earlier execution.
NoEarlier == [ran |-> FALSE, bad |-> {}]

FilterInit ==
    /\ f_cov \in [FilterIds -> CovValues]
    /\ f_pc = "start"
    /\ f_mode = 0
    /\ f_bad = {}
    /\ f_prev = NoEarlier

FilterIdle == f_pc = "off" /\ f_cov = <<>> /\ f_mode = 0 /\ f_bad = {} /\ f_prev = NoEarlier

\* filter_bad_sunks when count > 2 leaves rows: .mode().first() is any of the
\* modes (polars returns them in no particular order).
FilterWithMode ==
    /\ f_pc = "start"
    /\ count_gt_2(f_cov) # {}
    /\ \E m \in modes(f_cov, count_gt_2(f_cov)) :
          /\ f_mode' = m
          /\ f_bad' = bad_rows(f_cov, count_gt_2(f_cov), m)
    /\ f_pc' = "done"
    /\ UNCHANGED <<NotFilter, f_cov, f_prev>>

\* filter_bad_sunks when count > 2 leaves no row: the result is empty.
FilterNoRows ==
    /\ f_pc = "start"
    /\ count_gt_2(f_cov) = {}
    /\ f_bad' = {}
    /\ f_pc' = "done"
    /\ UNCHANGED <<NotFilter, f_cov, f_mode, f_prev>>

FilterNext == FilterWithMode \/ FilterNoRows

\* A second execution of filter_bad_sunks on the same table; the ids the first
\* returned are kept for comparison.
FilterAgain ==
    /\ f_pc = "done"
    /\ ~f_prev.ran
    /\ f_prev' = [ran |-> TRUE, bad |-> f_bad]
    /\ f_pc' = "start"
    /\ f_mode' = 0
    /\ f_bad' = {}
    /\ UNCHANGED <<NotFilter, f_cov>>

FilterTwiceNext == FilterWithMode \/ FilterNoRows \/ FilterAgain

(***************************************************************************)
(* create_sunk_graph (sunk_graph.rs) on the rows of one contig.  A row is  *)
(* [read, rpos, cpos, id], id being the row's group; the table is a set of  *)
(* rows, which is what .unique(None, First) leaves of it.                   *)
(***************************************************************************)
MIN_READ_LEN == 10000

\* Lines 283-293: the left join with df_bad_sunks and .filter(count.is_null()).
not_bad(row, bad) == row.id \notin bad

\* Lines 295-300: col("id").n_unique() of the read, over the rows kept.
id_count(rows, r) == Cardinality({x.id : x \in {y \in rows : y.read = r}})

\* Lines 278-325: df_sunk_pos_w_len.  A read without a length joins to null
\* and is dropped by the length filter.
df_sunk_pos_w_len(tbl, lens, bad) ==
    LET good == {x \in tbl : not_bad(x, bad)}
        multi == {x \in good : id_count(good, x.read) > 1}
    IN {x \in multi : x.read \in DOMAIN lens /\ lens[x.read] > MIN_READ_LEN}

\* The order of .sort(["cpos", "rpos"]).
CposRposLess(x, y) == x.cpos < y.cpos \/ (x.cpos = y.cpos /\ x.rpos < y.rpos)

\* combinations(2) of the rows of a read in sorted order: the earlier row first.
row_pairs(rows) == {p \in rows \X rows : CposRposLess(p[1], p[2])}

\* Lines 119-121: 0.9 < rpos_dst / cpos_dst < 1.1 on the absolute differences;
\* a quotient by 0 is infinite or NaN and fails the test.
pos_in_band(p) ==
    LET dc == Abs(p[1].cpos - p[2].cpos)
        dr == Abs(p[1].rpos - p[2].rpos)
    IN dc > 0 /\ 9 * dc < 10 * dr /\ 10 * dr < 11 * dc

\* Line 93: from_pw_distances_with(rpos, |a, b| a > b).
rpos_sign(p) == p[1].rpos > p[2].rpos

mask(rows) == {p \in row_pairs(rows) : pos_in_band(p)}

\* Lines 127-139: the sign value_counts finds most often among the masked
\* pairs; value_counts is unsorted, so of two signs equally often .first()
\* is either.
true_orients(m) ==
    LET t == Cardinality({p \in m : rpos_sign(p)})
        f == Cardinality({p \in m : ~rpos_sign(p)})
    IN IF t > f THEN {TRUE} ELSE IF f > t THEN {FALSE} ELSE {TRUE, FALSE}

\* mask_true_orient without the sign test: every pair of the mask.
mask_any_orient(m, o) == m

\* Lines 143-147.
mask_true_orient(m, o) == {p \in m : rpos_sign(p) = o}

\* The edges graph.add_edge adds, as sets of ids.
id_edges(ps) == {{p[1].id, p[2].id} : p \in ps}

\* The nodes connected to the nodes S by the edges E.
RECURSIVE Connected(_, _)
Connected(S, E) ==
    LET next == S \cup UNION {e \in E : e \cap S # {}}
    IN IF next = S THEN S ELSE Connected(next, E)

\* kosaraju_scc of an undirected graph: its connected components.
kosaraju_scc(N, E) == {Connected({n}, E) : n \in N}

\* components.iter().max_by(len): a component of the greatest length (which
\* one of several is decided by the order in which petgraph lists them).
largest_components(comps) ==
    {c \in comps : \A d \in comps : Cardinality(d) <= Cardinality(c)}

\* Ok(None)
NoComponent == [some |-> FALSE, err |-> FALSE, orient |-> "none", edges |-> {}, ids |-> {}]

\* Err(..): line 74, cpos_col.i64()? on a column that is not Int64.
SchemaMismatch == [some |-> FALSE, err |-> TRUE, orient |-> "none", edges |-> {}, ids |-> {}]

\* get_read_largest_sunk_graph_component: every outcome on the rows of a read.
\* (The bail! of line 140 is not an outcome: with a pair in the mask,
\* value_counts has a row and .first() a value.)
get_read_largest_sunk_graph_component(rows, dtype) ==
    LET m == mask(rows)
    IN IF dtype # "i64" THEN {SchemaMismatch}
       ELSE IF m = {} THEN {NoComponent}
       ELSE UNION {
               LET edges == id_edges(mask_true_orient(m, o))
                   comps == kosaraju_scc(UNION edges, edges)
               IN IF comps = {} THEN {NoComponent}
                  ELSE {[some |-> TRUE, err |-> FALSE, orient |-> IF o THEN "-" ELSE "+",
                         edges |-> edges, ids |-> c] : c \in largest_components(comps)}
               : o \in true_orients(m)}

\* component_kept keeping the components of 2 nodes too.
component_kept_gt_1(n) == n > 1

\* Line 43: .filter(|nodes| nodes.len() > 2)
component_kept(n) == n > 2

\* Line 32-33: the HashMap collected from (id, add_node(id)) keeps, for an id
\* pushed several times, the node added last.
node_idxs(sunks, id) == Max({i \in DOMAIN sunks : sunks[i].id = id})

\* Lines 22: chunk_by read: positions i < j of one run of equal read names.
same_chunk(sunks, i, j) == i < j /\ \A k \in i..j : sunks[k].read = sunks[i].read

\* get_contig_sunk_graph_components on the parallel vectors rnames, ids, given
\* as one sequence of [read, id]: the rows (st, end, sunks) of the BED table.
get_contig_sunk_graph_components(sunks) ==
    LET nodes == DOMAIN sunks
        edges == {{node_idxs(sunks, sunks[p[1]].id), node_idxs(sunks, sunks[p[2]].id)} :
                    p \in {q \in nodes \X nodes : same_chunk(sunks, q[1], q[2])}}
        comps == {c \in kosaraju_scc(nodes, edges) : component_kept(Cardinality(c))}
    IN {[st |-> Min({sunks[n].id : n \in c}),
         end |-> Max({sunks[n].id : n \in c} \cup {0}),
         sunks |-> Cardinality(c)] : c \in comps}

\* partition_by(["read"], true): the reads in the order of their first rows
\* in the table sorted by (cpos, rpos).
partition_orders(rows) ==
    LET first(r) == CHOOSE x \in rows : x.read = r /\
                        \A y \in rows : y.read = r => ~CposRposLess(y, x)
        reads == {x.read : x \in rows}
    IN SortedSeqs(reads, {p \in reads \X reads : CposRposLess(first(p[1]), first(p[2]))})

RECURSIVE flat_map_components(_, _)
flat_map_components(order, out) ==
    IF order = <<>> THEN <<>>
    ELSE LET r == Head(order)
         IN [i \in 1..Cardinality(out[r].ids) |-> [read |-> r, id |-> SetToSeq(out[r].ids)[i]]]
            \o flat_map_components(Tail(order), out)

\* The call panicked: cause is "extract" for the .unwrap() of line 339 on the
\* Err of a read, "reduce" for the .unwrap() of line 346 on an empty reduce.
Panicked(cause) ==
    [ok |-> FALSE, cause |-> cause, orient |-> <<>>, edges |-> <<>>, sunks |-> <<>>, bed |-> {}]

\* No call made yet.
NotRun == Panicked("none")

\* create_sunk_graph: every outcome.
create_sunk_graph(tbl, lens, bad, dtype) ==
    LET rows == df_sunk_pos_w_len(tbl, lens, bad)
        reads == {x.read : x \in rows}
        per == [r \in reads |->
                    get_read_largest_sunk_graph_component({x \in rows : x.read = r}, dtype)]
        outs == {out \in [reads -> UNION Range(per)] : \A r \in reads : out[r] \in per[r]}
    IN UNION {{LET sunks == flat_map_components(SelectSeq(order, LAMBDA r : out[r].some), out)
               IN IF \E r \in reads : out[r].err THEN Panicked("extract")
                  ELSE IF sunks = <<>> THEN Panicked("reduce")
                  ELSE [ok |-> TRUE, cause |-> "none",
                        orient |-> [r \in reads |-> out[r].orient],
                        edges |-> [r \in reads |-> out[r].edges],
                        sunks |-> sunks,
                        bed |-> get_contig_sunk_graph_components(sunks)]
               : order \in partition_orders(rows)} : out \in outs}

\* The tables drawn: read 1 holds every id, read 2 any of the last two; the
\* cpos of a row is its group's.
GraphIds == [r \in Range(ReadNames) |->
                IF r = ReadNames[1] THEN 1..MaxGraphId ELSE (MaxGraphId - 1)..MaxGraphId]

GraphRpos == [r \in Range(ReadNames) |-> IF r = ReadNames[1] THEN 1..MaxGraphRpos ELSE 1..2]

GraphReadContents(r) ==
    IF r = ReadNames[1]
    THEN {f \in [GraphIds[r] -> GraphRpos[r]] : \A x, y \in DOMAIN f : x # y => f[x] # f[y]}
    ELSE UNION {{f \in [S -> GraphRpos[r]] : \A x, y \in DOMAIN f : x # y => f[x] # f[y]} :
                    S \in SUBSET GraphIds[r]}

\* The lengths of the two reads: both long enough, or the first one not (the
\* second is then the only read the length filter keeps, and none is kept
\* when it holds fewer than two ids).
GraphReadLens ==
    {<<MIN_READ_LEN + 1, MIN_READ_LEN + 1>>, <<MIN_READ_LEN, MIN_READ_LEN + 1>>}

GraphRows(r, f) == {[read |-> r, rpos |-> f[i], cpos |-> i, id |-> i] : i \in DOMAIN f}

GraphInit ==
    /\ \E f1 \in GraphReadContents(ReadNames[1]), f2 \in GraphReadContents(ReadNames[2]) :
            g_tbl = GraphRows(ReadNames[1], f1) \cup GraphRows(ReadNames[2], f2)
    /\ \E len \in GraphReadLens : g_len = (ReadNames[1] :> len[1]) @@ (ReadNames[2] :> len[2])
    /\ g_dtype \in {"i64", "u64"}
    /\ g_pc = "start"
    /\ g_del = 0
    /\ g_run1 = NotRun
    /\ g_run2 = NotRun

GraphIdle ==
    /\ g_pc = "off" /\ g_tbl = {} /\ g_len = <<>> /\ g_dtype = "-" /\ g_del = 0
    /\ g_run1 = NotRun /\ g_run2 = NotRun

\* create_sunk_graph with no bad SUNK.
RunAll ==
    /\ g_pc = "start"
    /\ g_run1' \in create_sunk_graph(g_tbl, g_len, {}, g_dtype)
    /\ g_pc' = "ran"
    /\ UNCHANGED <<NotGraph, g_tbl, g_len, g_dtype, g_del, g_run2>>

\* create_sunk_graph on the same table with the bad SUNK d.
RunWithout(d) ==
    /\ g_pc = "ran"
    /\ g_del' = d
    /\ g_run2' \in create_sunk_graph(g_tbl, g_len, {d}, g_dtype)
    /\ g_pc' = "done"
    /\ UNCHANGED <<NotGraph, g_tbl, g_len, g_dtype, g_run1>>

GraphNext == RunAll \/ \E d \in 1..MaxGraphId : RunWithout(d)

(***************************************************************************)
(* The stage cache (io.rs): load_or_redo_df! around each stage, write_tsv  *)
(* and load_tsv.  The driver that runs the stages in order is described by  *)
(* the specification (section 4: each stage consults a path); a stage's     *)
(* table is one of StageTables, since the row order of a stage's output may  *)
(* differ between two executions.                                           *)
(***************************************************************************)
Stages == 1..NumStages

StageTables == {"rows", "rows reordered"}

Absent == "absent"

\* What write_tsv leaves when File::create succeeded and the writer failed.
Partial == "partial"

\* path_exists answering no for every path.
path_never_exists(file) == FALSE

\* $path.exists()
path_exists(file) == file # Absent

NoTables == [s \in Stages |-> "none"]

CacheInit ==
    /\ c_state = "run"
    /\ c_run = 1
    /\ c_stage = 1
    /\ c_file = [s \in Stages |-> Absent]
    /\ c_df = NoTables
    /\ c_execd = {}
    /\ c_fail = "none"
    /\ c_completed = FALSE
    /\ c_snap = [s \in Stages |-> Absent]

CacheIdle ==
    /\ c_state = "off" /\ c_run = 0 /\ c_stage = 0 /\ c_file = <<>> /\ c_df = <<>>
    /\ c_execd = {} /\ c_fail = "none" /\ c_completed = FALSE /\ c_snap = <<>>

\* The driver goes on to the next stage, or has finished.
Advance ==
    /\ c_stage' = c_stage + 1
    /\ c_state' = IF c_stage = NumStages THEN "finished" ELSE "run"

\* The `?` of the macro: the error goes to the driver, which aborts.
Abort(kind) ==
    /\ c_state' = "aborted"
    /\ c_fail' = kind
    /\ UNCHANGED c_stage

\* io.rs 210-212: the path exists and load_tsv reads what the file holds.
LoadStage ==
    /\ c_state = "run"
    /\ path_exists(c_file[c_stage])
    /\ c_df' = [c_df EXCEPT ![c_stage] = c_file[c_stage]]
    /\ Advance
    /\ UNCHANGED <<NotCache, c_run, c_file, c_execd, c_fail, c_completed, c_snap>>

\* io.rs 210-212: the path exists and load_tsv returns an error.
LoadFails ==
    /\ c_state = "run"
    /\ path_exists(c_file[c_stage])
    /\ Abort("load")
    /\ UNCHANGED <<NotCache, c_run, c_file, c_df, c_execd, c_completed, c_snap>>

\* io.rs 214: the path does not exist and $fn_call returns an error.
ExecFails ==
    /\ c_state = "run"
    /\ ~path_exists(c_file[c_stage])
    /\ c_execd' = c_execd \cup {[stage |-> c_stage, existed |-> c_file[c_stage] # Absent]}
    /\ Abort("exec")
    /\ UNCHANGED <<NotCache, c_run, c_file, c_df, c_completed, c_snap>>

\* io.rs 214-215, 182: $fn_call returns a table and File::create fails.
CreateFails ==
    /\ c_state = "run"
    /\ ~path_exists(c_file[c_stage])
    /\ c_execd' = c_execd \cup {[stage |-> c_stage, existed |-> c_file[c_stage] # Absent]}
    /\ Abort("create")
    /\ UNCHANGED <<NotCache, c_run, c_file, c_df, c_completed, c_snap>>

\* io.rs 214-215, 182-186: File::create has made (or truncated) the file and
\* CsvWriter::finish fails: the file stays, with what was written of it.
WriteFails ==
    /\ c_state = "run"
    /\ ~path_exists(c_file[c_stage])
    /\ c_execd' = c_execd \cup {[stage |-> c_stage, existed |-> c_file[c_stage] # Absent]}
    /\ c_file' = [c_file EXCEPT ![c_stage] = Partial]
    /\ Abort("write")
    /\ UNCHANGED <<NotCache, c_run, c_df, c_completed, c_snap>>

\* io.rs 214-216: the stage is executed and its table t written.
ExecAndWrite(t) ==
    /\ c_state = "run"
    /\ ~path_exists(c_file[c_stage])
    /\ c_execd' = c_execd \cup {[stage |-> c_stage, existed |-> c_file[c_stage] # Absent]}
    /\ c_file' = [c_file EXCEPT ![c_stage] = t]
    /\ c_df' = [c_df EXCEPT ![c_stage] = t]
    /\ Advance
    /\ UNCHANGED <<NotCache, c_run, c_fail, c_completed, c_snap>>

\* The pipeline is started again on the same inputs and paths.
Rerun ==
    /\ c_state \in {"aborted", "finished"}
    /\ c_run < MaxRuns
    /\ c_run' = c_run + 1
    /\ c_state' = "run"
    /\ c_stage' = 1
    /\ c_df' = NoTables
    /\ c_execd' = {}
    /\ c_fail' = "none"
    /\ c_completed' = (c_completed \/ c_state = "finished")
    /\ c_snap' = IF c_state = "finished" /\ ~c_completed THEN c_file ELSE c_snap
    /\ UNCHANGED <<NotCache, c_file>>

CacheNext ==
    \/ LoadStage
    \/ LoadFails
    \/ ExecFails
    \/ CreateFails
    \/ WriteFails
    \/ \E t \in StageTables : ExecAndWrite(t)
    \/ Rerun

(***************************************************************************)
(* The single-contig example: contig A of 200 bases with SUNKs at 10, 11,  *)
(* 12 and 50, and a forward read r1 of 100 bases cut from A.  The table of *)
(* get_sunk_positions is given to map_sunks_to_reads and its table to      *)
(* assign_read_to_ctg_w_ort with the default parameters.                   *)
(***************************************************************************)
DEFAULT_BANDWIDTH == 2500

DEFAULT_GOOD_SUNK_THR == 1

ExampleCtgLen == 200

ExampleReadLen == 100

ExampleKmerSize == 20

ExampleSunkPositions == {10, 11, 12, 50}

\* The tables get_sunk_positions can return for the contig (lines 114-158).
ExampleSunkTables ==
    UNION {{with_group(tbl) :
              tbl \in SortedSeqs(TableRows(ExampleSunkPositions, {}, cn),
                                 CtgCposLess(TableRows(ExampleSunkPositions, {}, cn)))} :
           cn \in BOOLEAN}

\* The read A[st .. st + ExampleReadLen - 1]: window q of the read is window
\* st + q - 1 of the contig.
ExampleOcc(st) ==
    ReadNames[1] :>
        [q \in 1..(ExampleReadLen - ExampleKmerSize + 1) |->
            IF st + q - 1 \in ExampleSunkPositions
            THEN [ctg |-> CtgNames[1], cpos |-> st + q - 1]
            ELSE NoSite]

ExampleInit ==
    /\ m_tbl \in ExampleSunkTables
    /\ m_reads = <<ReadNames[1]>>
    /\ m_occ \in {ExampleOcc(st) : st \in 1..(ExampleCtgLen - ExampleReadLen + 1)}
    /\ m_pc = "map"
    /\ m_res = <<>>
    /\ m_out = <<>>
    /\ a_pc = "wait"
    /\ a_tbl = <<>>
    /\ a_dtype = "-"
    /\ a_bw = 0
    /\ a_thr = 0
    /\ a_out = {}

\* assign_read_to_ctg_w_ort(&df_read_sunk_pos, None, None) on the table of
\* map_sunks_to_reads: UInt64 columns when built in this run, Int64 when
\* read back from its file.
ExampleAssign(dtype) ==
    /\ m_pc = "done"
    /\ a_pc = "wait"
    /\ a_tbl' = m_out
    /\ a_dtype' = dtype
    /\ a_bw' = DEFAULT_BANDWIDTH
    /\ a_thr' = DEFAULT_GOOD_SUNK_THR
    /\ a_out' = assign_read_to_ctg_w_ort(m_out, dtype, DEFAULT_BANDWIDTH, DEFAULT_GOOD_SUNK_THR)
    /\ a_pc' = "done"
    /\ UNCHANGED NotAssign

ExampleNext ==
    \/ \E r \in Range(m_reads) : MapRead(r)
    \/ JoinAndReduce
    \/ \E dtype \in {"u64", "i64"} : ExampleAssign(dtype)

(***************************************************************************)
(* Specifications: one per stage.                                          *)
(***************************************************************************)
InitSunk == SunkInit /\ MapIdle /\ AssignIdle /\ FilterIdle /\ GraphIdle /\ CacheIdle

SpecSunk == InitSunk /\ [][SunkNext]_vars

InitMap == MapInit /\ SunkIdle /\ AssignIdle /\ FilterIdle /\ GraphIdle /\ CacheIdle

SpecMap == InitMap /\ [][MapNext]_vars

InitAssign == AssignInit /\ SunkIdle /\ MapIdle /\ FilterIdle /\ GraphIdle /\ CacheIdle

SpecAssign == InitAssign /\ [][AssignNext]_vars

InitFilter == FilterInit /\ SunkIdle /\ MapIdle /\ AssignIdle /\ GraphIdle /\ CacheIdle

SpecFilter == InitFilter /\ [][FilterNext]_vars

InitFilterTwice == FilterInit /\ SunkIdle /\ MapIdle /\ AssignIdle /\ GraphIdle /\ CacheIdle

SpecFilterTwice == InitFilterTwice /\ [][FilterTwiceNext]_vars

InitGraph == GraphInit /\ SunkIdle /\ MapIdle /\ AssignIdle /\ FilterIdle /\ CacheIdle

SpecGraph == InitGraph /\ [][GraphNext]_vars

InitCache == CacheInit /\ SunkIdle /\ MapIdle /\ AssignIdle /\ FilterIdle /\ GraphIdle

SpecCache == InitCache /\ [][CacheNext]_vars

\* Two executions with the canonical flag set, on a reference of one sequence.
InitSunkTwice ==
    SunkInit /\ s_canon /\ Len(s_ref) = 1
    /\ MapIdle /\ AssignIdle /\ FilterIdle /\ GraphIdle /\ CacheIdle

SpecSunkTwice == InitSunkTwice /\ [][SunkTwiceNext]_vars

InitExample == ExampleInit /\ SunkIdle /\ FilterIdle /\ GraphIdle /\ CacheIdle

SpecExample == InitExample /\ [][ExampleNext]_vars

(***************************************************************************)
(* Claims about get_sunk_positions.                                        *)
(***************************************************************************)
\* The number of windows of `bases` whose literal k-mer is km, plus the number
\* whose reverse complement is km.
OccIn(bases, km) ==
    Cardinality({p \in WindowStarts(bases, Len(km)) : WindowKmer(bases, Len(km), p) = km})
    + Cardinality({p \in WindowStarts(bases, Len(km)) :
                     rev_comp(WindowKmer(bases, Len(km), p)) = km})

GlobalOcc(km) ==
    SumOver([i \in DOMAIN s_ref |-> OccIn(s_ref[i].bases, km)], DOMAIN s_ref)

AllKmers == [1..s_ksize -> Bases]

\* C1: every emitted row carries a k-mer whose occurrence count, summed over
\* every window of every reference sequence (literal and reverse complement),
\* is exactly 1; a k-mer of summed count 2 or more is never emitted.
C1_EmittedKmerHasGlobalCountOne ==
    s_pc = "done" =>
        \A i \in DOMAIN s_df : \A km \in AllKmers :
            render(km) = s_df[i].kmer => GlobalOcc(km) = 1

\* C1 witness: a finished run over two sequences that emitted a row although
\* some k-mer occurs exactly once in each of the two sequences.
C1_Witness ==
    /\ s_pc = "done"
    /\ Len(s_ref) = 2
    /\ s_df # <<>>
    /\ \E km \in AllKmers :
        /\ OccIn(s_ref[1].bases, km) = 1
        /\ OccIn(s_ref[2].bases, km) = 1
        /\ \A i \in DOMAIN s_df : s_df[i].kmer # render(km)

\* C2: two rows of one contig that carry the same group and have no SUNK
\* position between them have cpos values that differ by exactly 1.
C2_GroupNeverSpansGap ==
    s_pc = "done" =>
        \A i, j \in DOMAIN s_df :
            (/\ s_df[i].ctg = s_df[j].ctg
             /\ s_df[i].group = s_df[j].group
             /\ s_df[i].cpos < s_df[j].cpos
             /\ ~\E m \in DOMAIN s_df :
                    /\ s_df[m].ctg = s_df[i].ctg
                    /\ s_df[i].cpos < s_df[m].cpos
                    /\ s_df[m].cpos < s_df[j].cpos)
            => s_df[j].cpos = s_df[i].cpos + 1

\* The k-mer strings of the rows emitted for sequence n.
EmittedKmers(n) == {s_df[i].kmer : i \in {j \in DOMAIN s_df : s_df[j].ctg = n}}

\* km is a SUNK of sequence n: a k-mer (or reverse complement) of a window of
\* n whose count summed over the reference is 1.
IsSunkOf(n, km) == OccIn(RefBases(n), km) = 1 /\ GlobalOcc(km) = 1

\* C12: with the canonical flag set, of a SUNK k-mer of a sequence whose
\* reverse complement is also a SUNK of that sequence exactly one of the two
\* is emitted for the sequence: never both, never neither.
C12_CanonicalEmitsExactlyOneOfPair ==
    (s_pc = "done" /\ s_canon) =>
        \A n \in RefNames : \A km \in AllKmers :
            (IsSunkOf(n, km) /\ IsSunkOf(n, rev_comp(km))) =>
                (render(km) \in EmittedKmers(n)) # (render(rev_comp(km)) \in EmittedKmers(n))

\* C12 witness: a finished canonical run over a sequence with two SUNK pairs.
C12_Witness ==
    /\ s_pc = "done"
    /\ s_canon
    /\ \E n \in RefNames : \E km, kn \in AllKmers :
        /\ kn \notin {km, rev_comp(km)}
        /\ IsSunkOf(n, km) /\ IsSunkOf(n, rev_comp(km))
        /\ IsSunkOf(n, kn) /\ IsSunkOf(n, rev_comp(kn))
        /\ render(km) \in EmittedKmers(n)
        /\ render(rev_comp(kn)) \in EmittedKmers(n)

\* C13: no two rows of the returned SUNK table share (ctg, cpos), whatever the
\* reference and the canonical flag.
C13_CtgCposUnique ==
    s_pc = "done" =>
        \A i, j \in DOMAIN s_df :
            (s_df[i].ctg = s_df[j].ctg /\ s_df[i].cpos = s_df[j].cpos) => i = j

\* The SUNK positions emitted for sequence n.
EmittedCpos(n) == {s_df[i].cpos : i \in {j \in DOMAIN s_df : s_df[j].ctg = n}}

\* The first position of the maximal run of consecutive SUNK positions of n
\* that contains position c.
RunStart(n, c) == Min({b \in 1..c : \A q \in b..c : q \in EmittedCpos(n)})

\* C16: the group of every row is the cpos of the first row of the maximal run
\* of consecutive positions of its contig that contains it; an isolated SUNK
\* has its own cpos as group.
C16_GroupIsStartOfConsecutiveRun ==
    s_pc = "done" =>
        \A i \in DOMAIN s_df : s_df[i].group = RunStart(s_df[i].ctg, s_df[i].cpos)

\* C17: with the canonical flag set, two executions of get_sunk_positions on
\* the same reference emit the same kmer string for every (ctg, cpos).
C17_TwoExecutionsKeepSameMember ==
    (s_pc = "done" /\ s_canon /\ prev_df # {}) =>
        \A i \in DOMAIN s_df : \A row \in prev_df :
            (row.ctg = s_df[i].ctg /\ row.cpos = s_df[i].cpos) => row.kmer = s_df[i].kmer

(***************************************************************************)
(* Claims about map_sunks_to_reads.                                        *)
(***************************************************************************)
\* Every occurrence of a SUNK in a read, read off the reads themselves.
ReadHits ==
    {[read |-> r, rpos |-> q, ctg |-> m_tbl[i].ctg, cpos |-> m_tbl[i].cpos,
      group |-> m_tbl[i].group] :
        r \in Range(m_reads), q \in 1..Max(Range(ReadWindows)), i \in DOMAIN m_tbl}

HitsOfGroup(k) ==
    {h \in ReadHits : /\ h.rpos \in DOMAIN m_occ[h.read]
                      /\ m_occ[h.read][h.rpos] = [ctg |-> h.ctg, cpos |-> h.cpos]
                      /\ GroupKey(h) = k}

\* C3: for every (read, ctg, group) with a hit the output holds exactly one
\* row; its cpos is the least cpos among the hits of that group in that read
\* and its rpos is the rpos of a hit of that least cpos.  Rows of no hit
\* group do not occur.
C3_OneRowPerGroupAtMinCpos ==
    m_pc = "done" =>
        /\ \A i \in DOMAIN m_out : HitsOfGroup(GroupKey(m_out[i])) # {}
        /\ \A h \in ReadHits :
            LET k == GroupKey(h)
                hs == HitsOfGroup(k)
                rows == {i \in DOMAIN m_out : GroupKey(m_out[i]) = k}
            IN hs # {} =>
                /\ Cardinality(rows) = 1
                /\ \A i \in rows :
                    /\ m_out[i].cpos = Min({x.cpos : x \in hs})
                    /\ \E x \in hs : x.cpos = m_out[i].cpos /\ x.rpos = m_out[i].rpos

\* C3 witness: a read hits two SUNKs of one group, the later SUNK at the
\* earlier read position, and a second read was mapped as well.
C3_Witness ==
    /\ m_pc = "done"
    /\ Len(m_reads) = 2
    /\ \E h1, h2 \in ReadHits :
        /\ HitsOfGroup(GroupKey(h1)) # {}
        /\ h1 \in HitsOfGroup(GroupKey(h1))
        /\ h2 \in HitsOfGroup(GroupKey(h1))
        /\ h1.cpos < h2.cpos
        /\ h2.rpos < h1.rpos

\* C14: given a SUNK table of zero rows, map_sunks_to_reads never returns a
\* table: it ends in the "No SUNKs given." failure, whatever the reads are,
\* also when there is no read.
C14_EmptySunkTableAlwaysFails ==
    m_tbl = <<>> => (m_pc # "done" /\ m_out = <<>>)

(***************************************************************************)
(* Claims about assign_read_to_ctg_w_ort.                                  *)
(***************************************************************************)
\* The (read, ctg) groups of read r that have at least 2 rows.
GroupsOfRead(r) ==
    {k \in {ReadCtg(a_tbl[i]) : i \in DOMAIN a_tbl} : k[1] = r /\ has_two_rows(a_tbl, k)}

\* The index of the first row of a_tbl that belongs to group k.
FirstRowOf(k) == Min(ReadCtgGroup(a_tbl, k))

\* C4: the assignment holds at most one row per read; the row's contig has a
\* sunks_within_bandwidth that is maximal among the read's groups of at least
\* 2 rows; among the contigs that tie, the one whose row comes first in the
\* input is chosen; ort is the orientation computed for that contig.
C4_OneRowPerReadBestCtgFirstTie ==
    a_pc = "done" =>
        /\ \A o1, o2 \in a_out : o1.read = o2.read => o1 = o2
        /\ \A o \in a_out :
              LET k == <<o.read, o.ctg>>
                  swb(g) == swb_of(a_dtype, a_tbl, a_bw, g)
              IN /\ k \in GroupsOfRead(o.read)
                 /\ o.sunks_within_bandwidth = swb(k)
                 /\ \A g \in GroupsOfRead(o.read) :
                        /\ swb(g) <= swb(k)
                        /\ swb(g) = swb(k) => FirstRowOf(k) <= FirstRowOf(g)
                 /\ o.ort = ort_of(a_dtype, a_tbl, k)

\* A read is assigned to one contig while another contig of the read, whose
\* rows come later in the input, has the same sunks_within_bandwidth.
C4_Witness ==
    /\ a_pc = "done"
    /\ \E o \in a_out : \E g \in GroupsOfRead(o.read) :
          /\ g[2] # o.ctg
          /\ swb_of(a_dtype, a_tbl, a_bw, g) = o.sunks_within_bandwidth
          /\ FirstRowOf(<<o.read, o.ctg>>) < FirstRowOf(g)

\* apos as the integers give it: cpos - rpos for "+", cpos + rpos for "-".
TrueApos(ort, row) == IF ort = "+" THEN row.cpos - row.rpos ELSE row.cpos + row.rpos

\* The number of rows of the output row o's group within a_bw of the median
\* of the group's integer apos.
TrueCountInBand(o) ==
    LET g == ReadCtgGroup(a_tbl, <<o.read, o.ctg>>)
    IN count_in_band([j \in g |-> TrueApos(o.ort, a_tbl[j])], g, a_bw)

\* C5: every read of the assignment has more than good_sunk_threshold rows
\* on its chosen contig whose apos differs from the group's median apos by
\* less than bandwidth.
C5_AssignedReadHasEnoughInBand ==
    a_pc = "done" => \A o \in a_out : TrueCountInBand(o) > a_thr

\* The (read, ctg) groups of the table given that have at least two rows.
GroupsOfTwoRows == {k \in {ReadCtg(a_tbl[i]) : i \in DOMAIN a_tbl} : has_two_rows(a_tbl, k)}

\* The mean of the consecutive differences of column c over the rows of group
\* k is positive: the differences sum to last - first.
MeanDiffPositive(k, c) ==
    LET g == ReadCtgGroup(a_tbl, k)
    IN a_tbl[Max(g)][c] - a_tbl[Min(g)][c] > 0

\* C18: a (read, ctg) group of two rows or more has ort '+' exactly when the
\* mean difference of cpos and the mean difference of rpos, in row order, are
\* both above 0, and '-' otherwise; so a read whose cpos descend is given '-'.
C18_OrtPlusIffBothMeansPositive ==
    a_pc = "done" =>
        /\ \A k \in GroupsOfTwoRows :
              (ort_of(a_dtype, a_tbl, k) = "+") <=>
                  (MeanDiffPositive(k, "cpos") /\ MeanDiffPositive(k, "rpos"))
        /\ \A o \in a_out :
              /\ <<o.read, o.ctg>> \in GroupsOfTwoRows
              /\ (o.ort = "+") <=>
                    (MeanDiffPositive(<<o.read, o.ctg>>, "cpos")
                     /\ MeanDiffPositive(<<o.read, o.ctg>>, "rpos"))

(***************************************************************************)
(* Claims about filter_bad_sunks.                                          *)
(***************************************************************************)
\* C6: the ids returned are exactly those whose coverage is below 2 or above
\* m + 4 * sqrt(m), m being the mode the run took (no tail when no id has a
\* coverage above 2).
C6_BadSetIsLowOrAboveTail ==
    f_pc = "done" =>
        f_bad = {id \in DOMAIN f_cov :
                    f_cov[id] < 2 \/ (f_mode # 0 /\ above_tail(f_cov[id], f_mode))}

\* C21: the bad set is a function of the coverages alone: two executions of
\* filter_bad_sunks on the same table return the same ids, whichever of
\* several most frequent coverages above 2 each takes as the mode.
C21_TwoExecutionsSameBadSet ==
    (f_pc = "done" /\ f_prev.ran) => f_bad = f_prev.bad

(***************************************************************************)
(* Claims about create_sunk_graph.                                         *)
(***************************************************************************)
\* The calls that returned.
GraphRuns == {run \in {g_run1, g_run2} : g_pc = "done" /\ run.ok}

\* The multi-read id graph of the vectors (rnames, ids) of a call: two
\* distinct ids are joined when one read holds both.
IdsOf(run) == {run.sunks[i].id : i \in DOMAIN run.sunks}

IdGraphEdges(run) ==
    {{run.sunks[p[1]].id, run.sunks[p[2]].id} :
        p \in {q \in (DOMAIN run.sunks) \X (DOMAIN run.sunks) :
                    /\ run.sunks[q[1]].read = run.sunks[q[2]].read
                    /\ run.sunks[q[1]].id < run.sunks[q[2]].id}}

IdGraphComponents(run) == {Connected({a}, IdGraphEdges(run)) : a \in IdsOf(run)}

\* C7: every row of the BED table is a connected component of the
\* multi-read id graph with at least 3 distinct ids: st is its least id, end
\* its greatest, st <= end, and sunks the number of its distinct ids.
C7_BedRowIsComponentOfThreeIds ==
    \A run \in GraphRuns : \A row \in run.bed :
        /\ row.st <= row.end
        /\ \E c \in IdGraphComponents(run) :
              /\ Cardinality(c) >= 3
              /\ row.st = Min(c)
              /\ row.end = Max(c)
              /\ row.sunks = Cardinality(c)

\* A BED row whose component holds an id that two reads contribute, next to
\* an id only one read contributes.
C7_Witness ==
    \E run \in GraphRuns : \E row \in run.bed : \E i, j, k \in DOMAIN run.sunks :
        /\ i # j
        /\ run.sunks[i].id = run.sunks[j].id
        /\ run.sunks[i].read # run.sunks[j].read
        /\ row.st <= run.sunks[i].id /\ run.sunks[i].id <= row.end
        /\ \A l \in DOMAIN run.sunks : l # k => run.sunks[l].id # run.sunks[k].id
        /\ row.sunks >= 3

\* C8: giving one SUNK id as bad adds no edge: the edges of every read's
\* graph and of the contig graph in the call with the bad SUNK are edges of
\* the call without it.
C8_DeletionAddsNoEdge ==
    (g_pc = "done" /\ g_run1.ok /\ g_run2.ok) =>
        /\ \A r \in DOMAIN g_run2.edges :
              r \in DOMAIN g_run1.edges /\ g_run2.edges[r] \subseteq g_run1.edges[r]
        /\ IdGraphEdges(g_run2) \subseteq IdGraphEdges(g_run1)

(***************************************************************************)
(* Claims about the stage cache.                                           *)
(***************************************************************************)
\* C9: a stage function is executed only when its path is absent, and once
\* a run has completed every stage a later run executes no stage function
\* and leaves every stage file as that run left it.
C9_RerunExecutesNothingAndKeepsFiles ==
    /\ \A e \in c_execd : ~e.existed
    /\ c_completed => (c_execd = {} /\ c_file = c_snap)

\* A run after a completed run has itself finished, every stage loaded from
\* its file.
C9_Witness ==
    /\ c_completed
    /\ c_state = "finished"
    /\ \A s \in Stages : c_df[s] = c_file[s] /\ c_file[s] \in StageTables

\* C10: when a stage fails while computing or writing its table, at abort
\* its file does not exist and the files of the earlier stages do; no run
\* is given a partial file as a stage's table.
C10_FailedStageLeavesNoFile ==
    /\ (c_state = "aborted" /\ c_fail \in {"exec", "create", "write"}) =>
            /\ c_file[c_stage] = Absent
            /\ \A s \in 1..(c_stage - 1) : c_file[s] # Absent
    /\ c_state # "off" => \A s \in Stages : c_df[s] # Partial

\* The ids create_sunk_graph's vectors hold for read r.
ReadIds(run, r) == {run.sunks[i].id : i \in {j \in DOMAIN run.sunks : run.sunks[j].read = r}}

\* The pairs of rows (i before j in the order of cpos, rpos) with
\* 0.9 < |R_i - R_j| / |C_i - C_j| < 1.1, and the sign bit R_i > R_j of a pair.
InBandPairs(rws) ==
    {p \in rws \X rws :
        /\ p[1].cpos < p[2].cpos \/ (p[1].cpos = p[2].cpos /\ p[1].rpos < p[2].rpos)
        /\ p[1].cpos # p[2].cpos
        /\ 9 * Abs(p[1].cpos - p[2].cpos) < 10 * Abs(p[1].rpos - p[2].rpos)
        /\ 10 * Abs(p[1].rpos - p[2].rpos) < 11 * Abs(p[1].cpos - p[2].cpos)}

SignBit(p) == p[1].rpos > p[2].rpos

PairsOfSign(P, o) == {p \in P : SignBit(p) = o}

\* The signs no other sign outnumbers among the pairs P.
MajoritySigns(P) ==
    {o \in BOOLEAN : Cardinality(PairsOfSign(P, o)) >= Cardinality(PairsOfSign(P, ~o))}

\* T is a connected component of the graph with edges E: no edge leaves T and
\* no part of T is cut off from the rest of it.
IsComponent(T, E) ==
    /\ T # {}
    /\ T \subseteq UNION E
    /\ \A e \in E : e \cap T # {} => e \subseteq T
    /\ \A S \in SUBSET T : (S # {} /\ S # T) => \E e \in E : e \cap S # {} /\ ~(e \subseteq S)

\* T is a component and no component is larger (another component is
\* disjoint from T).
IsLargestComponent(T, E) ==
    /\ IsComponent(T, E)
    /\ \A U \in SUBSET ((UNION E) \ T) : Cardinality(U) > Cardinality(T) => ~IsComponent(U, E)

\* What the claim says of the ids returned for the rows rws of one read.
ReadMatches(ids, rws) ==
    LET P == InBandPairs(rws)
    IN IF P = {} THEN ids = {}
       ELSE \E o \in MajoritySigns(P) :
               IsLargestComponent(ids, {{p[1].id, p[2].id} : p \in PairsOfSign(P, o)})

\* Every pair of the rows is in band and all pairs have one sign.
AllInBandOneSign(rws) ==
    LET P == InBandPairs(rws)
    IN /\ \A x, y \in rws : x.id < y.id => (<<x, y>> \in P \/ <<y, x>> \in P)
       /\ \E o \in BOOLEAN : PairsOfSign(P, o) = P

\* A call on Int64 columns with the bad ids `bad` agrees with the claim.
CallMatches(run, bad) ==
    LET rows == df_sunk_pos_w_len(g_tbl, g_len, bad)
        reads == {x.read : x \in rows}
        of(r) == {x \in rows : x.read = r}
    IN g_dtype = "i64" =>
        /\ \A r \in reads : ReadMatches(ReadIds(run, r), of(r))
        /\ \A r \in reads :
              AllInBandOneSign(of(r)) =>
                 /\ ReadIds(run, r) = {x.id : x \in of(r)}
                 /\ (reads = {r} /\ Cardinality(ReadIds(run, r)) > 2) =>
                        run.bed = {[st |-> Min(ReadIds(run, r)), end |-> Max(ReadIds(run, r)),
                                    sunks |-> Cardinality(ReadIds(run, r))]}

C20_EmptyResultNeverAborts ==
    /\ g_pc \in {"ran", "done"} => g_run1.cause # "reduce"
    /\ g_pc = "done" => g_run2.cause # "reduce"

\* The calls made so far.
GraphCalls == {run \in {g_run1, g_run2} : run # NotRun}

\* C11: a read whose component extraction returns an error is skipped: no
\* call of create_sunk_graph is aborted by the error of a read.
C11_ReadErrorNeverAborts ==
    \A run \in GraphCalls : run.cause # "extract"

(***************************************************************************)
(* Claims about the single-contig example.                                 *)
(***************************************************************************)
\* The row of read r1 in the assignment table, if any.
ExampleAssigned(swb) ==
    [read |-> ReadNames[1], ctg |-> CtgNames[1], sunks_within_bandwidth |-> swb, ort |-> "+"]

\* C15 as stated: the read r1 = A[30..129] is assigned to (A, +) with
\* sunks_within_bandwidth = 4.
C15_ExampleReadAssignedWithFour ==
    (a_pc = "done" /\ m_occ = ExampleOcc(30)) => ExampleAssigned(4) \in a_out

\* C15, amended: the read r1 = A[30..129] holds only the SUNK at 50, so it has
\* one row and is left unassigned; a forward read of 100 bases that holds all
\* four SUNKs (it starts at 1..10) is assigned to (A, +) with
\* sunks_within_bandwidth = 2, one per group.
C15_ExampleReadUnassigned ==
    a_pc = "done" =>
        /\ m_occ = ExampleOcc(30) => (Len(m_out) = 1 /\ a_out = {})
        /\ \A st \in 1..10 : m_occ = ExampleOcc(st) => a_out = {ExampleAssigned(2)}

\* C15 witness: the three stages ran on r1 = A[30..129].
C15_Witness ==
    /\ a_pc = "done"
    /\ m_occ = ExampleOcc(30)
    /\ \E i \in DOMAIN m_out : m_out[i].cpos = 50 /\ m_out[i].rpos = 21

====
